---------------------------- MODULE Spec2Model ----------------------------
(***************************************************************************)
(* Model of the RPC load balancer: the round-robin scheduler              *)
(* (src/src/algorithms/round_robin.rs), the request handler and the retry *)
(* controller (src/src/handlers/load_balancer.rs) and the refill task     *)
(* spawned by main (src/src/main.rs).                                     *)
(*                                                                         *)
(* One chain (one RoundRobin) is modelled.  Upstreams are numbered from 0 *)
(* as in the code (positions of `urls`); `index` is the AtomicUsize.      *)
(* Request handlers reach the scheduler through Arc<Mutex<RoundRobin>>    *)
(* (`outer`); the refill task works on a clone that shares `urls` and     *)
(* `index` and takes only the per-upstream mutexes (`slock`).             *)
(***************************************************************************)
EXTENDS Integers, Sequences, FiniteSets, TLC

VARIABLES
    request_limit,   \* RpcServer.request_limit of every upstream (configuration)
    configured,      \* RpcServer.current_limit as configured (configuration)
    current_limit,   \* RpcServer.current_limit of every upstream
    index,           \* RoundRobin.index
    health,          \* environment: does upstream i answer 2xx
    outer,           \* holder of the Mutex around the RoundRobin
    slock,           \* holder of the Mutex around every RpcServer
    arrivals,        \* inbound requests still to arrive
    pc,              \* position of every request handler
    loc,             \* locals of every request handler
    rpc,             \* position of the refill task
    rk,              \* upstream the refill task's for loop is at
    winPicks,        \* history: picks returning i since i was last refilled
    refilled,        \* history: has upstream i been refilled yet
    passClean,       \* history: no pick took a token the running pass had set
    gn0,             \* history: scheduler as it was when the running pick began
    nops,            \* history: operations run so far (sequential use)
    pure,            \* history: only picks were run so far (sequential use)
    last,            \* history: result of the last operation (sequential use)
    lastOp           \* history: the last operation (sequential use)

vars == <<request_limit, configured, current_limit, index, health, outer, slock,
          arrivals, pc, loc, rpc, rk, winPicks, refilled, passClean, gn0,
          nops, pure, last, lastOp>>

----------------------------------------------------------------------------
(* Bounds of the model *)

NumUpstreams == 2
MaxLimit == 1
NumHandlers == 2
ChainLen == 4
SeqMaxLimit == 3

Handlers == 1..NumHandlers

(* Lock holders *)
Free == 0
RefillTask == NumHandlers + 1

(* Option<String>: None, or the position of the upstream whose url is returned *)
None == -1

len == Cardinality(DOMAIN request_limit)
Servers == 0..(len - 1)

----------------------------------------------------------------------------
(* RoundRobin::get_next, one iteration of its for loop *)

(* variant: the test of line 36 off by one *)
HasToken_OffByOne(cl, i) == cl[i] >= 0

(* server.current_limit > 0 *)
HasToken(cl, i) == cl[i] > 0

(* variant: line 37 left out *)
TakeToken_Forgotten(cl, i) == cl

(* server.current_limit -= 1.  The guard of line 36 keeps the u32 from
   underflowing; the model counts in the integers, where a decrement of 0
   shows as -1. *)
TakeToken(cl, i) == [cl EXCEPT ![i] = cl[i] - 1]

(* variant: the cursor is stored back unmoved *)
Advance_Stuck(i) == i % len

(* self.index.store((i + 1) % len) *)
Advance(i) == (i + 1) % len

(* self.index.load() % self.urls.len() *)
Cursor(idx) == idx % len

RECURSIVE GetNextFrom(_, _, _)

(* variant: the cursor is moved on after a successful pick as well *)
GetNextFrom_MovesOn(cl, idx, k) ==
    IF k >= len
      THEN [res |-> None, idx |-> idx, cl |-> cl]
      ELSE LET i == Cursor(idx)
           IN  IF HasToken(cl, i)
                 THEN [res |-> i, idx |-> Advance(i), cl |-> TakeToken(cl, i)]
                 ELSE GetNextFrom(cl, Advance(i), k + 1)

(* variant: the loop runs len - 1 times *)
GetNextFrom_ShortLoop(cl, idx, k) ==
    IF k >= len - 1
      THEN [res |-> None, idx |-> idx, cl |-> cl]
      ELSE LET i == Cursor(idx)
           IN  IF HasToken(cl, i)
                 THEN [res |-> i, idx |-> idx, cl |-> TakeToken(cl, i)]
                 ELSE GetNextFrom(cl, Advance(i), k + 1)

(* variant: a get_next that finds nothing puts the cursor back to 0 *)
GetNextFrom_ResetsCursor(cl, idx, k) ==
    IF k >= len
      THEN [res |-> None, idx |-> 0, cl |-> cl]
      ELSE LET i == Cursor(idx)
           IN  IF HasToken(cl, i)
                 THEN [res |-> i, idx |-> idx, cl |-> TakeToken(cl, i)]
                 ELSE GetNextFrom(cl, Advance(i), k + 1)

(* get_next run with nothing interleaved: k iterations done so far *)
GetNextFrom(cl, idx, k) ==
    IF k >= len
      THEN [res |-> None, idx |-> idx, cl |-> cl]
      ELSE LET i == Cursor(idx)
           IN  IF HasToken(cl, i)
                 THEN [res |-> i, idx |-> idx, cl |-> TakeToken(cl, i)]
                 ELSE GetNextFrom(cl, Advance(i), k + 1)

GetNextSeq(cl, idx) == GetNextFrom(cl, idx, 0)

(* retry_connection run with nothing interleaved *)
RetryConnectionSeq(cl, idx) == GetNextSeq(cl, Advance(idx))

(* refill_limits, one pass of the for loop run with nothing interleaved *)
RefillSeq(rl) == rl

----------------------------------------------------------------------------
(* Handler locals *)

FreshLoc == [retries |-> 0, max_retries |-> 0, k |-> 0, i |-> 0, ctx |-> "none",
             uri |-> None, sent |-> 0, outcome |-> "none", resp |-> "none"]

NoSnapshot == [on |-> FALSE]

(* the refill task is between passes: asleep, or not yet at the first lock *)
RefillAtRest == rpc = "sleep" \/ (rpc = "pass" /\ rk = 0)

UNCH_config == UNCHANGED <<request_limit, configured, health>>
UNCH_seq == UNCHANGED <<nops, pure, last, lastOp>>
UNCH_refill == UNCHANGED <<rpc, rk, refilled>>

----------------------------------------------------------------------------
(* load_balancer: chain lookup and body read, then retry_with_backoff *)

(* variant: the upstream is picked before the body is read *)
load_balancer_PicksFirst(h, chain_known, body_ok) ==
    /\ pc[h] = "idle"
    /\ arrivals > 0
    /\ arrivals' = arrivals - 1
    /\ IF ~chain_known
         THEN /\ pc' = [pc EXCEPT ![h] = "done"]
              /\ loc' = [loc EXCEPT ![h].resp = "400 Invalid chain"]
              /\ UNCHANGED <<current_limit, index>>
         ELSE IF ~body_ok
           THEN /\ pc' = [pc EXCEPT ![h] = "done"]
                /\ loc' = [loc EXCEPT ![h].resp = "400 Failed to read request body"]
                /\ current_limit' = GetNextSeq(current_limit, index).cl
                /\ index' = GetNextSeq(current_limit, index).idx
           ELSE /\ pc' = [pc EXCEPT ![h] = "rwb_init"]
                /\ loc' = loc
                /\ UNCHANGED <<current_limit, index>>
    /\ UNCH_config /\ UNCH_seq /\ UNCH_refill
    /\ UNCHANGED <<outer, slock, winPicks, passClean, gn0>>

(* load_balancer, lines 15-49: 400 for an unknown chain (22-28) or a body that
   cannot be read within the 1 MiB limit (32-45), else retry_with_backoff *)
load_balancer(h, chain_known, body_ok) ==
    /\ pc[h] = "idle"
    /\ arrivals > 0
    /\ arrivals' = arrivals - 1
    /\ IF ~chain_known
         THEN /\ pc' = [pc EXCEPT ![h] = "done"]
              /\ loc' = [loc EXCEPT ![h].resp = "400 Invalid chain"]
         ELSE IF ~body_ok
           THEN /\ pc' = [pc EXCEPT ![h] = "done"]
                /\ loc' = [loc EXCEPT ![h].resp = "400 Failed to read request body"]
           ELSE /\ pc' = [pc EXCEPT ![h] = "rwb_init"]
                /\ loc' = loc
    /\ UNCH_config /\ UNCH_seq /\ UNCH_refill
    /\ UNCHANGED <<current_limit, index, outer, slock, winPicks, passClean, gn0>>

(* retry_with_backoff, lines 77-85: max_retries = rr.urls.len() under the lock *)
rwb_init(h) ==
    /\ pc[h] = "rwb_init"
    /\ outer = Free
    /\ loc' = [loc EXCEPT ![h].retries = 0, ![h].max_retries = len]
    /\ pc' = [pc EXCEPT ![h] = "gfr_lock"]
    /\ UNCH_config /\ UNCH_seq /\ UNCH_refill
    /\ UNCHANGED <<current_limit, index, outer, slock, arrivals, winPicks,
                   passClean, gn0>>

(* get_forward_request, line 122: state.lock(), then get_next begins *)
gfr_lock(h) ==
    /\ pc[h] = "gfr_lock"
    /\ outer = Free
    /\ outer' = h
    /\ pc' = [pc EXCEPT ![h] = "get_next"]
    /\ loc' = [loc EXCEPT ![h].k = 0, ![h].ctx = "gfr", ![h].uri = None,
                          ![h].outcome = "none"]
    /\ gn0' = IF RefillAtRest
                THEN [on |-> TRUE, cl |-> current_limit, idx |-> index]
                ELSE NoSnapshot
    /\ UNCH_config /\ UNCH_seq /\ UNCH_refill
    /\ UNCHANGED <<current_limit, index, slock, arrivals, winPicks, passClean>>

(* variant: 502 when an attempt had been forwarded, 503 when none was *)
GatewayError_Split(forwarded) ==
    IF forwarded > 0 THEN "502 Bad Gateway" ELSE "503 No Avaialble RPC Urls"

(* load_balancer, lines 62-68: retry_with_backoff returned None *)
GatewayError(forwarded) == "503 No Avaialble RPC Urls"

(* variant: retries is not incremented after retry_connection *)
AfterGetNext_NotCounted(h, res) ==
    /\ outer' = Free
    /\ gn0' = NoSnapshot
    /\ loc' = [loc EXCEPT ![h].uri = res, ![h].ctx = "none", ![h].k = 0, ![h].i = 0]
    /\ pc' = [pc EXCEPT ![h] = IF loc[h].ctx = "rc" THEN "sleep"
                                ELSE IF res # None THEN "send" ELSE "retry"]

(* variant: the guard of state.lock() lives to the end of the calling function *)
AfterGetNext_KeepsLock(h, res) ==
    /\ outer' = outer
    /\ gn0' = NoSnapshot
    /\ IF loc[h].ctx = "gfr"
         THEN /\ loc' = [loc EXCEPT ![h].uri = res, ![h].ctx = "none", ![h].k = 0,
                                    ![h].i = 0]
              /\ pc' = [pc EXCEPT ![h] = IF res # None THEN "send" ELSE "retry"]
         ELSE LET r == loc[h].retries + 1
              IN  /\ loc' = [loc EXCEPT ![h].uri = res, ![h].ctx = "none",
                                        ![h].k = 0, ![h].i = 0, ![h].retries = r,
                                        ![h].resp = IF r < loc[h].max_retries
                                                      THEN "none"
                                                      ELSE GatewayError(loc[h].sent)]
                  /\ pc' = [pc EXCEPT ![h] = IF r < loc[h].max_retries
                                               THEN "sleep" ELSE "done"]

(* What the caller of get_next does with its result.  In get_forward_request
   (lines 124-138) the lock is released and a request is built for Some(uri); in
   retry_with_backoff (lines 100-108) the result of retry_connection is dropped,
   the lock is released, retries is incremented and the loop sleeps or ends. *)
AfterGetNext(h, res) ==
    /\ outer' = Free
    /\ gn0' = NoSnapshot
    /\ IF loc[h].ctx = "gfr"
         THEN /\ loc' = [loc EXCEPT ![h].uri = res, ![h].ctx = "none", ![h].k = 0,
                                    ![h].i = 0]
              /\ pc' = [pc EXCEPT ![h] = IF res # None THEN "send" ELSE "retry"]
         ELSE LET r == loc[h].retries + 1
              IN  /\ loc' = [loc EXCEPT ![h].uri = res, ![h].ctx = "none",
                                        ![h].k = 0, ![h].i = 0, ![h].retries = r,
                                        ![h].resp = IF r < loc[h].max_retries
                                                      THEN "none"
                                                      ELSE GatewayError(loc[h].sent)]
                  /\ pc' = [pc EXCEPT ![h] = IF r < loc[h].max_retries
                                               THEN "sleep" ELSE "done"]

(* get_next, lines 29-31: the loop test, index.load() and urls[i].lock() *)
gn_lock(h) ==
    /\ pc[h] = "get_next"
    /\ loc[h].k < len
    /\ slock[Cursor(index)] = Free
    /\ slock' = [slock EXCEPT ![Cursor(index)] = h]
    /\ loc' = [loc EXCEPT ![h].i = Cursor(index)]
    /\ pc' = [pc EXCEPT ![h] = "probe"]
    /\ UNCH_config /\ UNCH_seq /\ UNCH_refill
    /\ UNCHANGED <<current_limit, index, outer, arrivals, winPicks, passClean, gn0>>

(* get_next, lines 36-39: the upstream has a token *)
gn_hit(h) ==
    /\ pc[h] = "probe"
    /\ HasToken(current_limit, loc[h].i)
    /\ current_limit' = TakeToken(current_limit, loc[h].i)
    /\ slock' = [slock EXCEPT ![loc[h].i] = Free]
    /\ winPicks' = [winPicks EXCEPT ![loc[h].i] = @ + 1]
    /\ passClean' = (passClean /\ ~(rpc # "sleep" /\ loc[h].i < rk))
    /\ AfterGetNext(h, loc[h].i)
    /\ UNCH_config /\ UNCH_seq /\ UNCH_refill
    /\ UNCHANGED <<index, arrivals>>

(* variant: the upstream's guard is not dropped when the loop goes round *)
gn_miss_KeepsGuard(h) ==
    /\ pc[h] = "probe"
    /\ ~HasToken(current_limit, loc[h].i)
    /\ index' = Advance(loc[h].i)
    /\ slock' = slock
    /\ loc' = [loc EXCEPT ![h].k = @ + 1]
    /\ pc' = [pc EXCEPT ![h] = "get_next"]
    /\ UNCH_config /\ UNCH_seq /\ UNCH_refill
    /\ UNCHANGED <<current_limit, outer, arrivals, winPicks, passClean, gn0>>

(* get_next, line 40: no token, the cursor moves on *)
gn_miss(h) ==
    /\ pc[h] = "probe"
    /\ ~HasToken(current_limit, loc[h].i)
    /\ index' = Advance(loc[h].i)
    /\ slock' = [slock EXCEPT ![loc[h].i] = Free]
    /\ loc' = [loc EXCEPT ![h].k = @ + 1]
    /\ pc' = [pc EXCEPT ![h] = "get_next"]
    /\ UNCH_config /\ UNCH_seq /\ UNCH_refill
    /\ UNCHANGED <<current_limit, outer, arrivals, winPicks, passClean, gn0>>

(* get_next, line 44: every upstream was probed, None *)
gn_none(h) ==
    /\ pc[h] = "get_next"
    /\ loc[h].k >= len
    /\ AfterGetNext(h, None)
    /\ UNCH_config /\ UNCH_seq /\ UNCH_refill
    /\ UNCHANGED <<current_limit, index, slock, arrivals, winPicks, passClean>>

(* variant: only a transport error is retried, a non-2xx response is returned *)
send_PassesStatus(h, kind) ==
    /\ pc[h] = "send"
    /\ IF health[loc[h].uri]
         THEN /\ kind = "2xx"
              /\ loc' = [loc EXCEPT ![h].sent = @ + 1, ![h].outcome = kind,
                                    ![h].resp = "200"]
              /\ pc' = [pc EXCEPT ![h] = "done"]
         ELSE /\ kind # "2xx"
              /\ IF kind = "non2xx"
                   THEN /\ loc' = [loc EXCEPT ![h].sent = @ + 1, ![h].outcome = kind,
                                              ![h].resp = "upstream status"]
                        /\ pc' = [pc EXCEPT ![h] = "done"]
                   ELSE /\ loc' = [loc EXCEPT ![h].sent = @ + 1, ![h].outcome = kind]
                        /\ pc' = [pc EXCEPT ![h] = "retry"]
    /\ UNCH_config /\ UNCH_seq /\ UNCH_refill
    /\ UNCHANGED <<current_limit, index, outer, slock, arrivals, winPicks,
                   passClean, gn0>>

(* retry_with_backoff, lines 91-95: request.send() and the status test *)
send(h, kind) ==
    /\ pc[h] = "send"
    /\ IF health[loc[h].uri]
         THEN /\ kind = "2xx"
              /\ loc' = [loc EXCEPT ![h].sent = @ + 1, ![h].outcome = kind,
                                    ![h].resp = "200"]
              /\ pc' = [pc EXCEPT ![h] = "done"]
         ELSE /\ kind # "2xx"
              /\ loc' = [loc EXCEPT ![h].sent = @ + 1, ![h].outcome = kind]
              /\ pc' = [pc EXCEPT ![h] = "retry"]
    /\ UNCH_config /\ UNCH_seq /\ UNCH_refill
    /\ UNCHANGED <<current_limit, index, outer, slock, arrivals, winPicks,
                   passClean, gn0>>

(* retry_with_backoff, lines 99-100 and retry_connection, lines 61-65:
   state.lock(), the cursor is moved on and get_next begins *)
retry_connection(h) ==
    /\ pc[h] = "retry"
    /\ outer = Free
    /\ outer' = h
    /\ index' = Advance(index)
    /\ pc' = [pc EXCEPT ![h] = "get_next"]
    /\ loc' = [loc EXCEPT ![h].k = 0, ![h].ctx = "rc", ![h].outcome = "none"]
    /\ UNCH_config /\ UNCH_seq /\ UNCH_refill
    /\ UNCHANGED <<current_limit, slock, arrivals, winPicks, passClean, gn0>>

(* retry_with_backoff, line 107: the backoff sleep ends *)
wake(h) ==
    /\ pc[h] = "sleep"
    /\ pc' = [pc EXCEPT ![h] = "gfr_lock"]
    /\ UNCH_config /\ UNCH_seq /\ UNCH_refill
    /\ UNCHANGED <<current_limit, index, outer, slock, arrivals, loc, winPicks,
                   passClean, gn0>>

----------------------------------------------------------------------------
(* refill_limits: loop { for server in urls { lock; current = request }; sleep } *)

(* line 52: server.lock() *)
refill_lock ==
    /\ rpc = "pass"
    /\ slock[rk] = Free
    /\ slock' = [slock EXCEPT ![rk] = RefillTask]
    /\ rpc' = "write"
    /\ UNCH_config /\ UNCH_seq
    /\ UNCHANGED <<current_limit, index, outer, arrivals, pc, loc, rk, winPicks,
                   refilled, passClean, gn0>>

(* variants: line 53 stores the counter back, or one more than the limit *)
RefillValue_Kept(i) == current_limit[i]

RefillValue_Above(i) == request_limit[i] + 1

(* the value line 53 stores *)
RefillValue(i) == request_limit[i]

(* lines 53-54: server.current_limit = server.request_limit, the guard is dropped;
   after the last upstream the task sleeps (line 56) *)
refill_write ==
    /\ rpc = "write"
    /\ current_limit' = [current_limit EXCEPT ![rk] = RefillValue(rk)]
    /\ slock' = [slock EXCEPT ![rk] = Free]
    /\ winPicks' = [winPicks EXCEPT ![rk] = 0]
    /\ refilled' = [refilled EXCEPT ![rk] = TRUE]
    /\ IF rk + 1 < len
         THEN /\ rk' = rk + 1
              /\ rpc' = "pass"
              /\ passClean' = passClean
         ELSE /\ rk' = 0
              /\ rpc' = "sleep"
              /\ passClean' = TRUE
    /\ UNCH_config /\ UNCH_seq
    /\ UNCHANGED <<index, outer, arrivals, pc, loc, gn0>>

(* line 56: time::sleep(1 s) ends, the next pass begins *)
refill_wake ==
    /\ rpc = "sleep"
    /\ rpc' = "pass"
    /\ UNCH_config /\ UNCH_seq
    /\ UNCHANGED <<current_limit, index, outer, slock, arrivals, pc, loc, rk,
                   winPicks, refilled, passClean, gn0>>

----------------------------------------------------------------------------
(* Specification: concurrent request handlers and the refill task *)

InitWith(n, rl, cl, hl, arr) ==
    /\ request_limit = rl
    /\ configured = cl
    /\ current_limit = cl
    /\ index = 0
    /\ health = hl
    /\ outer = Free
    /\ slock = [i \in 0..(n - 1) |-> Free]
    /\ arrivals = arr
    /\ pc = [h \in Handlers |-> "idle"]
    /\ loc = [h \in Handlers |-> FreshLoc]
    /\ rpc = "pass"
    /\ rk = 0
    /\ winPicks = [i \in 0..(n - 1) |-> 0]
    /\ refilled = [i \in 0..(n - 1) |-> FALSE]
    /\ passClean = TRUE
    /\ gn0 = NoSnapshot
    /\ nops = 0
    /\ pure = TRUE
    /\ last = None
    /\ lastOp = "none"

Init ==
    \E rl \in [0..(NumUpstreams - 1) -> 0..MaxLimit],
       cl \in [0..(NumUpstreams - 1) -> 0..MaxLimit],
       hl \in [0..(NumUpstreams - 1) -> BOOLEAN] :
        InitWith(NumUpstreams, rl, cl, hl, NumHandlers)

Next ==
    \/ \E h \in Handlers, known \in BOOLEAN, ok \in BOOLEAN : load_balancer(h, known, ok)
    \/ \E h \in Handlers : rwb_init(h)
    \/ \E h \in Handlers : gfr_lock(h)
    \/ \E h \in Handlers : gn_lock(h)
    \/ \E h \in Handlers : gn_hit(h)
    \/ \E h \in Handlers : gn_miss(h)
    \/ \E h \in Handlers : gn_none(h)
    \/ \E h \in Handlers, kind \in {"2xx", "non2xx", "error"} : send(h, kind)
    \/ \E h \in Handlers : retry_connection(h)
    \/ \E h \in Handlers : wake(h)
    \/ refill_lock
    \/ refill_write
    \/ refill_wake

Spec == Init /\ [][Next]_vars

----------------------------------------------------------------------------
(* Vocabulary of the properties *)

(* handler h takes a step *)
StepBy(h) == pc'[h] # pc[h] \/ loc'[h] # loc[h]

(* handler h's get_next returns Some(url) in this step *)
Hit(h) == pc[h] = "probe" /\ pc'[h] \notin {"probe", "get_next"}

(* tokens upstream i held when its running window began: as configured, or as
   the last refill set them *)
WinStart(i) == IF refilled[i] THEN request_limit[i] ELSE configured[i]

Max(a, b) == IF a >= b THEN a ELSE b

----------------------------------------------------------------------------
(* C1 as stated: in every reachable state every upstream i has
   0 <= current_limit[i] <= request_limit[i].  The configuration is not
   validated, so a chain configured with current_limit > request_limit starts
   outside the range. *)
C1_Original ==
    \A i \in Servers : 0 <= current_limit[i] /\ current_limit[i] <= request_limit[i]

(* C1 amended: under every interleaving of get_next, retry_connection and
   refill_limits, every upstream i has
   0 <= current_limit[i] <= max(request_limit[i], configured current_limit[i]),
   and current_limit[i] <= request_limit[i] whenever the configuration had it so
   or upstream i has been refilled; the counter never underflows. *)
C1_TokensInRange ==
    \A i \in Servers :
        /\ 0 <= current_limit[i]
        /\ current_limit[i] <= Max(request_limit[i], configured[i])
        /\ (configured[i] <= request_limit[i] \/ refilled[i])
              => current_limit[i] <= request_limit[i]

(* an upstream configured above its limit was refilled down to it while another
   upstream's last token was taken by a pick *)
C1_Witness ==
    \E i, j \in Servers :
        /\ configured[i] > request_limit[i] /\ refilled[i]
        /\ winPicks[j] > 0 /\ current_limit[j] = 0

(* C2: every get_next that returns Some(url) returns an upstream that held a
   token when it was chosen and takes exactly one token from it and none from
   any other; the urls handed out for upstream i in a window never exceed the
   tokens taken from it, also with handlers and the refill task interleaved. *)
C2_PickTakesOneToken ==
    /\ [][\A h \in Handlers :
            Hit(h) =>
              LET i == loc'[h].uri
              IN  /\ i \in Servers
                  /\ current_limit[i] > 0
                  /\ current_limit'[i] = current_limit[i] - 1
                  /\ winPicks'[i] = winPicks[i] + 1
                  /\ \A j \in Servers \ {i} : current_limit'[j] = current_limit[j]
                  /\ \A g \in Handlers \ {h} : ~Hit(g)]_vars
    /\ [](\A i \in Servers : winPicks[i] <= WinStart(i) - current_limit[i])

(* two handlers hold a url of the same upstream at once, a refill in between *)
C2_Witness ==
    \E g, h \in Handlers :
        /\ g # h /\ pc[g] = "send" /\ pc[h] = "send"
        /\ loc[g].uri = loc[h].uri /\ refilled[loc[g].uri]

(* C3: while upstream i is not refilled, the picks returning i, over all
   handlers, do not exceed the tokens i held when the window began; they and
   the tokens i still holds add up to them, so the same bound holds from any
   later point of the window on. *)
C3_WindowQuota ==
    \A i \in Servers :
        /\ winPicks[i] <= WinStart(i)
        /\ winPicks[i] + current_limit[i] = WinStart(i)

(* a window's whole quota was handed out and a later request found nothing *)
C3_Witness ==
    /\ \A i \in Servers : WinStart(i) > 0 /\ winPicks[i] = WinStart(i)
    /\ \E h \in Handlers : pc[h] = "retry" /\ loc[h].uri = None /\ loc[h].sent = 0

(* C4 as stated: retry_connection, called by retry_with_backoff after a failed
   attempt, moves the cursor to (cursor + 1) mod len and takes no token: no step
   of the call changes a current_limit. *)
C4_RotateTakesNoToken ==
    [][\A h \in Handlers :
          ((pc[h] = "retry" \/ loc[h].ctx = "rc") /\ StepBy(h)) =>
              /\ current_limit' = current_limit
              /\ pc[h] = "retry" => index' = Advance(index)]_vars

----------------------------------------------------------------------------
(* a whole get_next is run in this step (sequential use) *)
PickStep == nops' = nops + 1 /\ lastOp' = "get_next"

(* C5: a get_next that finds a token at the cursor returns that upstream, takes
   one token and leaves the cursor where it is; a get_next that follows a
   get_next returning i returns i again while i holds a token; the cursor moves
   in a get_next only when the upstream at the cursor is empty. *)
C5_StickyPick ==
    [][PickStep =>
         LET i == Cursor(index)
         IN  /\ current_limit[i] > 0 =>
                   /\ last' = i
                   /\ index' = index
                   /\ current_limit' = [current_limit EXCEPT ![i] = @ - 1]
             /\ (lastOp = "get_next" /\ last # None /\ current_limit[last] > 0)
                   => last' = last
             /\ index' # index => current_limit[i] = 0]_vars

(* three picks in a row returned the same upstream *)
C5_Witness ==
    /\ pure /\ nops = 3 /\ lastOp = "get_next"
    /\ last # None /\ winPicks[last] = 3

(* C6: from N upstreams with current_limit = request_limit = k and cursor 0,
   N*k picks in a row all return an upstream, each upstream k times, and leave
   every current_limit at 0; the pick after them returns None. *)
C6_EqualQuotas ==
    LET k == request_limit[0]
    IN  (pure /\ \A i \in Servers : request_limit[i] = k) =>
          /\ (0 < nops /\ nops <= len * k) => last # None
          /\ nops = len * k =>
                \A i \in Servers : winPicks[i] = k /\ current_limit[i] = 0
          /\ nops = len * k + 1 =>
                /\ last = None
                /\ \A i \in Servers : winPicks[i] = k /\ current_limit[i] = 0

(* the pick after N*k picks, for k = 2 *)
C6_Witness ==
    /\ pure /\ \A i \in Servers : request_limit[i] = 2
    /\ nops = len * 2 + 1 /\ last = None

(* C7: when a pass of refill_limits ends and no pick took a token the pass had
   already set, every upstream holds current_limit = request_limit. *)
C7_RefillRestores ==
    [][(rpc = "write" /\ rpc' = "sleep" /\ passClean) =>
          \A i \in Servers : current_limit'[i] = request_limit[i]]_vars

(* a pass ended after a handler had taken the only token of an upstream, which
   holds its limit again *)
C7_Witness ==
    /\ rpc = "sleep"
    /\ \A i \in Servers : refilled[i] /\ current_limit[i] = request_limit[i]
    /\ \E h \in Handlers :
          /\ pc[h] = "send" /\ request_limit[loc[h].uri] > 0
          /\ winPicks[loc[h].uri] = 0

----------------------------------------------------------------------------
(* Specification: one request on a chain of ChainLen upstreams with limits 1/1,
   the configuration of tests::test_retry_on_failure *)

InitChain ==
    \E hl \in [0..(ChainLen - 1) -> BOOLEAN] :
        InitWith(ChainLen, [i \in 0..(ChainLen - 1) |-> 1],
                 [i \in 0..(ChainLen - 1) |-> 1], hl, 1)

SpecChain == InitChain /\ [][Next]_vars

----------------------------------------------------------------------------
(* Specification: the scheduler used from one thread, as in tests::test_get_next:
   whole calls of get_next, retry_connection and one pass of refill_limits *)

SeqOps == NumUpstreams * SeqMaxLimit + 2

UNCH_procs == UNCHANGED <<outer, slock, arrivals, pc, loc, rpc, rk, passClean, gn0>>

Counted(r) == IF r.res = None THEN winPicks ELSE [winPicks EXCEPT ![r.res] = @ + 1]

seq_get_next ==
    LET r == GetNextSeq(current_limit, index)
    IN  /\ nops < SeqOps
        /\ current_limit' = r.cl
        /\ index' = r.idx
        /\ last' = r.res
        /\ winPicks' = Counted(r)
        /\ nops' = nops + 1
        /\ lastOp' = "get_next"
        /\ UNCHANGED <<pure, refilled>>
        /\ UNCH_config /\ UNCH_procs

seq_retry_connection ==
    LET r == RetryConnectionSeq(current_limit, index)
    IN  /\ nops < SeqOps
        /\ current_limit' = r.cl
        /\ index' = r.idx
        /\ last' = r.res
        /\ winPicks' = Counted(r)
        /\ nops' = nops + 1
        /\ pure' = FALSE
        /\ lastOp' = "retry_connection"
        /\ UNCHANGED refilled
        /\ UNCH_config /\ UNCH_procs

seq_refill_limits ==
    /\ nops < SeqOps
    /\ current_limit' = RefillSeq(request_limit)
    /\ winPicks' = [i \in Servers |-> 0]
    /\ refilled' = [i \in Servers |-> TRUE]
    /\ last' = None
    /\ nops' = nops + 1
    /\ pure' = FALSE
    /\ lastOp' = "refill_limits"
    /\ UNCHANGED index
    /\ UNCH_config /\ UNCH_procs

InitSeq ==
    \E rl \in [0..(NumUpstreams - 1) -> 0..SeqMaxLimit] :
        InitWith(NumUpstreams, rl, rl, [i \in 0..(NumUpstreams - 1) |-> TRUE], 0)

NextSeq == seq_get_next \/ seq_retry_connection \/ seq_refill_limits

SpecSeq == InitSeq /\ [][NextSeq]_vars

----------------------------------------------------------------------------
(* handler h's get_next, called from get_forward_request, returns in this step *)
PickReturns(h) == loc[h].ctx = "gfr" /\ loc'[h].ctx = "none"

(* C8 as stated: get_next, retry_connection and refill_limits are linearizable,
   a pass of refill_limits being one operation.  Handlers exclude each other, so
   a get_next that began with the refill task between passes runs either before
   every pass that overlaps it or after one of them: its result and the cursor
   it leaves are those of get_next on the scheduler as it was when the call
   began, or on that scheduler with every upstream refilled.  Stated for the
   chains configured with current_limit = request_limit. *)
C8_Linearizable ==
    [][\A h \in Handlers :
          (PickReturns(h) /\ gn0.on /\ configured = request_limit) =>
              LET before == GetNextSeq(gn0.cl, gn0.idx)
                  after == GetNextSeq(RefillSeq(request_limit), gn0.idx)
              IN  \/ loc'[h].uri = before.res /\ index' = before.idx
                  \/ loc'[h].uri = after.res /\ index' = after.idx]_vars

----------------------------------------------------------------------------
(* Progress of retry_with_backoff: what is left of the loop, in steps of the
   handler.  Every iteration is worth IterWeight; within an iteration the
   positions count down. *)
IterWeight == 4 * len + 8

Rank(h) ==
    CASE pc[h] = "sleep" -> 4 * len + 7
      [] pc[h] = "gfr_lock" -> 4 * len + 6
      [] pc[h] = "get_next" /\ loc[h].ctx = "gfr" -> 2 * len + 5 + 2 * (len - loc[h].k)
      [] pc[h] = "probe" /\ loc[h].ctx = "gfr" -> 2 * len + 4 + 2 * (len - loc[h].k)
      [] pc[h] = "send" -> 2 * len + 4
      [] pc[h] = "retry" -> 2 * len + 3
      [] pc[h] = "get_next" /\ loc[h].ctx = "rc" -> 2 * (len - loc[h].k) + 2
      [] pc[h] = "probe" /\ loc[h].ctx = "rc" -> 2 * (len - loc[h].k) + 1
      [] OTHER -> 0

Measure(h) ==
    CASE pc[h] = "idle" -> (len + 1) * IterWeight + 1
      [] pc[h] = "rwb_init" -> (len + 1) * IterWeight
      [] pc[h] = "done" -> 0
      [] OTHER -> (loc[h].max_retries - loc[h].retries) * IterWeight + Rank(h)

InIteration(h) == pc[h] \in {"gfr_lock", "get_next", "probe", "send", "retry"}

(* C9 as stated: retry_with_backoff runs at most MAX_RETRIES = 3 iterations. *)
C9_Original == \A h \in Handlers : loc[h].retries <= 3

(* C9 amended: retry_with_backoff runs at most len(upstreams) iterations (its
   max_retries is the number of upstreams of the chain, not 3) and then returns
   a response or None; every step of the handler brings the end of the loop
   nearer, whatever the upstreams answer and whatever other handlers and the
   refill task do. *)
C9_BoundedRetries ==
    /\ [](\A h \in Handlers :
             /\ loc[h].retries <= len /\ loc[h].sent <= len
             /\ InIteration(h) => loc[h].retries < loc[h].max_retries
             /\ pc[h] = "done" => loc[h].resp # "none"
             /\ Measure(h) >= 0)
    /\ [][\A h \in Handlers : StepBy(h) => Measure(h)' < Measure(h)]_vars

(* a request that used every iteration: as many as the chain has upstreams,
   more than 3, and was answered 503 *)
C9_Witness ==
    \E h \in Handlers :
        /\ pc[h] = "done" /\ loc[h].retries = len /\ len > 3
        /\ loc[h].resp = "503 No Avaialble RPC Urls"

----------------------------------------------------------------------------
(* C10 as stated: one request on a chain of two or more upstreams that each hold
   a token, the first upstream failing and the next one healthy, no refill: the
   handler answers with the second upstream's 2xx after exactly two forwarded
   attempts, one token was taken from each of the two and the cursor is past
   the failed upstream. *)
C10_Failover ==
    \A h \in Handlers :
        ( /\ pc[h] = "done" /\ loc[h].max_retries > 0
          /\ \A g \in Handlers \ {h} : pc[g] = "idle"
          /\ len >= 2
          /\ configured = request_limit
          /\ \A i \in Servers : configured[i] >= 1 /\ ~refilled[i]
          /\ rpc = "pass" /\ rk = 0
          /\ ~health[0] /\ health[1] )
        => /\ loc[h].resp = "200"
           /\ loc[h].uri = 1
           /\ loc[h].sent = 2
           /\ current_limit[0] = configured[0] - 1
           /\ current_limit[1] = configured[1] - 1
           /\ index = 1

----------------------------------------------------------------------------
(* handler h's retry_with_backoff ended without a success *)
Exhausted(h) ==
    pc[h] = "done" /\ loc[h].max_retries > 0 /\ loc[h].resp # "200"

(* C11 as stated: when the retry budget is used up without a success the
   handler answers 503 if no attempt was forwarded and 502 if one was. *)
C11_Original ==
    \A h \in Handlers :
        Exhausted(h) =>
            /\ loc[h].sent = 0 => loc[h].resp = "503 No Avaialble RPC Urls"
            /\ loc[h].sent > 0 => loc[h].resp = "502 Bad Gateway"

(* C11 amended: when the retry budget is used up without a success the handler
   answers 503 Service Unavailable, whether or not an attempt was forwarded to
   an upstream; no request is answered 502. *)
C11_Always503 ==
    \A h \in Handlers :
        /\ Exhausted(h) =>
              /\ loc[h].resp = "503 No Avaialble RPC Urls"
              /\ loc[h].retries = loc[h].max_retries
        /\ loc[h].resp # "502 Bad Gateway"

(* a request was forwarded, failed every time and was answered 503 *)
C11_Witness ==
    \E h \in Handlers :
        Exhausted(h) /\ loc[h].sent > 0 /\ loc[h].resp = "503 No Avaialble RPC Urls"

(* every upstream was configured with no token and no refill has happened *)
Drained ==
    \A i \in Servers : configured[i] = 0 /\ ~refilled[i]

(* C12: with every upstream at current_limit 0 for the whole request (no refill
   in between) the request forwards nothing, uses its whole retry budget and is
   answered 503 with the body "No available RPC URLs"; every current_limit is
   still 0. *)
C12_QuotaExhaustion ==
    \A h \in Handlers :
        (Drained /\ Exhausted(h)) =>
            /\ loc[h].sent = 0
            /\ loc[h].retries = loc[h].max_retries
            /\ loc[h].resp = "503 No available RPC URLs"
            /\ \A i \in Servers : current_limit[i] = 0

(* the responses of load_balancer's two early returns *)
ClientError(h) ==
    loc[h].resp \in {"400 Invalid chain", "400 Failed to read request body"}

(* C13: a request for an unknown chain, or whose body cannot be read (a body
   over 1 MiB included), is answered 400 without entering the retry
   controller: no pick, no rotate, nothing forwarded, and the cursor, every
   current_limit and both levels of lock are as they were. *)
C13_ClientErrors ==
    /\ [][\A h \in Handlers :
            (pc[h] = "idle" /\ pc'[h] = "done") =>
                /\ ClientError(h)'
                /\ UNCHANGED <<current_limit, index, outer, slock, winPicks>>]_vars
    /\ [](\A h \in Handlers :
            ClientError(h) =>
                /\ pc[h] = "done"
                /\ loc[h].sent = 0
                /\ loc[h].retries = 0
                /\ loc[h].max_retries = 0
                /\ loc[h].uri = None
                /\ outer # h)

(* one request was refused with 400 while another is in the middle of a pick *)
C13_Witness ==
    \E h, g \in Handlers :
        /\ ClientError(h)
        /\ pc[g] = "probe"
        /\ \E i \in Servers : current_limit[i] > 0

----------------------------------------------------------------------------
(* A chain whose upstreams are all out of tokens, the refill task, and one
   request that arrives once the refill task has been through every upstream.
   The upstreams answer 2xx. *)

InitRefill ==
    \E rl \in [0..(NumUpstreams - 1) -> 0..MaxLimit] :
        InitWith(NumUpstreams, rl, [i \in 0..(NumUpstreams - 1) |-> 0],
                 [i \in 0..(NumUpstreams - 1) |-> TRUE], 1)

(* a request accepted after the refill task's first pass: main spawns the
   task (lines 45-56) before it binds the listener (lines 58-72) *)
late_request(h) ==
    /\ \A i \in Servers : refilled[i]
    /\ \E known \in BOOLEAN, ok \in BOOLEAN : load_balancer(h, known, ok)

NextRefill ==
    \/ \E h \in Handlers : late_request(h)
    \/ \E h \in Handlers : rwb_init(h)
    \/ \E h \in Handlers : gfr_lock(h)
    \/ \E h \in Handlers : gn_lock(h)
    \/ \E h \in Handlers : gn_hit(h)
    \/ \E h \in Handlers : gn_miss(h)
    \/ \E h \in Handlers : gn_none(h)
    \/ \E h \in Handlers, kind \in {"2xx", "non2xx", "error"} : send(h, kind)
    \/ \E h \in Handlers : retry_connection(h)
    \/ \E h \in Handlers : wake(h)
    \/ refill_lock
    \/ refill_write
    \/ refill_wake

(* refill_limits is a spawned task that only locks, writes and sleeps: it is
   scheduled again after every sleep, and an upstream's std Mutex is held by
   get_next over straight-line code only (round_robin.rs 31-41), so it is
   released and the refill task gets it *)
FairRefill ==
    /\ SF_vars(refill_lock)
    /\ WF_vars(refill_write)
    /\ WF_vars(refill_wake)
    /\ \A h \in Handlers : WF_vars(gn_hit(h)) /\ WF_vars(gn_miss(h))

SpecRefill == InitRefill /\ [][NextRefill]_vars /\ FairRefill

(* C14: the refill task never stops refilling, so an upstream that is out of
   tokens eventually has current_limit = request_limit again; a request that
   arrives on a chain that was exhausted, after the refill, is forwarded at its
   first pick and answered 2xx, and that pick leaves the picked upstream at
   request_limit - 1. *)
C14_RefillRestoresService ==
    /\ \A i \in 0..(NumUpstreams - 1) :
          /\ []<>(rpc = "write" /\ rk = i)
          /\ (current_limit[i] < request_limit[i])
                ~> (current_limit[i] = request_limit[i])
    /\ [](\A h \in Handlers :
            (pc[h] = "done" /\ ~ClientError(h)
                /\ \E i \in Servers : request_limit[i] > 0) =>
                /\ loc[h].resp = "200"
                /\ loc[h].sent = 1
                /\ loc[h].retries = 0)
    /\ [][\A h \in Handlers :
            Hit(h) =>
                current_limit'[loc'[h].uri] = request_limit[loc'[h].uri] - 1]_vars

(* the chain started with no token anywhere; the request was answered 2xx and
   its upstream is one token below its request_limit *)
C14_Witness ==
    \E h \in Handlers :
        /\ pc[h] = "done"
        /\ loc[h].resp = "200"
        /\ \A i \in Servers : configured[i] = 0
        /\ current_limit[loc[h].uri] = request_limit[loc[h].uri] - 1

----------------------------------------------------------------------------
(* C15: from any scheduler state, two successive calls of retry_connection
   with no pick between them leave the cursor at (cursor + 2) mod N. *)
C15_RotateTwice ==
    LET r1 == RetryConnectionSeq(current_limit, index)
        r2 == RetryConnectionSeq(r1.cl, r1.idx)
    IN  Cursor(r2.idx) = (Cursor(index) + 2) % len

(* C16: within one request, after a failed attempt on upstream u the
   controller rotates, and the next pick of that request starts at an upstream
   other than u and, when some other upstream has tokens, returns an upstream
   other than u: the request is not sent again to the upstream that just
   failed while a sibling has quota left. *)
C16_NextAttemptElsewhere ==
    LET first == GetNextSeq(current_limit, index)
        u == first.res
        rotated == RetryConnectionSeq(first.cl, first.idx)
        second == GetNextSeq(rotated.cl, rotated.idx)
    IN  (len >= 2 /\ u # None) =>
            /\ Cursor(rotated.idx) # u
            /\ (\E j \in Servers \ {u} : rotated.cl[j] > 0) => second.res # u
            /\ (\E j \in Servers \ {u} : first.cl[j] > 0) => second.res # u

(* C17: a get_next run with nothing interleaved returns None exactly when
   every upstream has current_limit 0; otherwise it returns the first upstream
   with a token in cyclic order from the cursor, within len positions, takes
   one token from it and leaves the cursor on it. *)
C17_FirstWithToken ==
    [][PickStep =>
        LET c == Cursor(index)
            Dist == {d \in 0..(len - 1) : current_limit[(c + d) % len] > 0}
        IN  /\ (last' = None) <=> (\A i \in Servers : current_limit[i] = 0)
            /\ Dist # {} =>
                  \E d \in Dist :
                      /\ \A e \in Dist : d <= e
                      /\ last' = (c + d) % len
                      /\ index' = (c + d) % len
                      /\ current_limit' =
                            [current_limit EXCEPT ![(c + d) % len] = @ - 1]]_vars

(* the first call was a pick that went past the empty upstream 0 to upstream 1 *)
C17_Witness ==
    /\ nops = 1
    /\ lastOp = "get_next"
    /\ last = 1
    /\ index = 1
    /\ current_limit[0] = 0

(* C18: a get_next that returns None changes nothing: after the loop over the
   empty upstreams the cursor is where it was before the call and every
   current_limit is still 0. *)
C18_FailedPickIsNoOp ==
    [][(PickStep /\ last' = None) =>
        /\ index' = index
        /\ current_limit' = current_limit
        /\ \A i \in Servers : current_limit'[i] = 0
        /\ winPicks' = winPicks]_vars

(* a pick found nothing on a drained chain whose cursor is not at 0 *)
C18_Witness ==
    /\ lastOp = "get_next"
    /\ last = None
    /\ index = 1
    /\ \E i \in Servers : request_limit[i] > 0

----------------------------------------------------------------------------
(* retry_with_backoff, line 92: the attempt of handler h was not a success *)
Failed(h) == loc[h].outcome \in {"non2xx", "error"}

(* C19: retry_with_backoff returns a response only for an attempt answered
   2xx, and returns the first such at once: no pick, rotate or sleep follows.
   Every transport error and every non-2xx response (a 4xx included) is
   followed by retry_connection and, while the budget lasts, by a sleep and
   another pick; it is never handed to the client, whose answer is then the
   503 of the exhausted budget. *)
C19_SuccessOnly ==
    /\ [][\A h \in Handlers :
            /\ (pc[h] = "send" /\ StepBy(h)) =>
                  /\ loc'[h].sent = loc[h].sent + 1
                  /\ loc'[h].outcome \in {"2xx", "non2xx", "error"}
                  /\ loc'[h].outcome = "2xx" =>
                        pc'[h] = "done" /\ loc'[h].resp = "200"
                  /\ Failed(h)' =>
                        pc'[h] = "retry" /\ loc'[h].resp = "none"
            /\ (pc[h] = "retry" /\ StepBy(h)) =>
                  /\ index' = Advance(index)
                  /\ loc'[h].ctx = "rc"
                  /\ pc'[h] = "get_next"
            /\ (loc[h].ctx = "rc" /\ loc'[h].ctx = "none") =>
                  /\ loc'[h].retries = loc[h].retries + 1
                  /\ IF loc'[h].retries < loc[h].max_retries
                       THEN pc'[h] = "sleep" /\ loc'[h].resp = "none"
                       ELSE pc'[h] = "done"
                              /\ loc'[h].resp = "503 No Avaialble RPC Urls"
            /\ (pc[h] = "sleep" /\ StepBy(h)) => pc'[h] = "gfr_lock"
            /\ pc[h] = "done" => (pc'[h] = "done" /\ loc'[h] = loc[h])]_vars
    /\ [](\A h \in Handlers :
            /\ loc[h].resp = "200" <=> loc[h].outcome = "2xx"
            /\ loc[h].outcome = "2xx" => pc[h] = "done"
            /\ Failed(h) => pc[h] = "retry"
            /\ loc[h].resp \in {"none", "200", "503 No Avaialble RPC Urls",
                                "400 Invalid chain", "400 Failed to read request body"})

(* a request whose first attempt failed was answered 2xx by a later attempt *)
C19_Witness ==
    \E h \in Handlers :
        /\ pc[h] = "done"
        /\ loc[h].resp = "200"
        /\ loc[h].retries >= 1
        /\ loc[h].sent >= 2

----------------------------------------------------------------------------
(* the refill task has not yet finished its first sleep: it sleeps at the end
   of a pass over every upstream (round_robin.rs 49-56) *)
BeforeFirstInterval == \E i \in Servers : ~refilled[i]

(* C20: the refill task sleeps one interval before its first refill, so
   nothing is refilled at startup: until the first interval has elapsed every
   upstream's current_limit is its configured current_limit less the tokens
   picked from it, also when that differs from request_limit. *)
C20_SleepBeforeFirstRefill ==
    (BeforeFirstInterval
        /\ \A i \in Servers : configured[i] # request_limit[i]) =>
        \A i \in Servers :
            /\ ~refilled[i]
            /\ current_limit[i] = configured[i] - winPicks[i]

----------------------------------------------------------------------------
(* handler h is at an .await: request.send() (load_balancer.rs 91) or
   tokio::time::sleep (107) *)
Suspended(h) == pc[h] \in {"send", "sleep"}

(* C21: no lock is held across a suspension point.  A handler holds the
   scheduler's mutex only inside get_next / retry_connection and an upstream's
   mutex only while it probes that upstream under the scheduler's mutex; it
   holds neither while it waits for the upstream's answer or sleeps between
   attempts; the refill task holds an upstream's mutex only to write that
   upstream and none while it sleeps.  So while every other request is
   suspended, a request can take the scheduler's mutex at once. *)
C21_NoLockAcrossAwait ==
    /\ \A h \in Handlers :
          /\ outer = h => pc[h] \in {"get_next", "probe"}
          /\ \A i \in Servers :
                slock[i] = h => (pc[h] = "probe" /\ outer = h /\ loc[h].i = i)
          /\ Suspended(h) => (outer # h /\ \A i \in Servers : slock[i] # h)
          /\ (pc[h] \in {"gfr_lock", "retry"}
                 /\ \A g \in Handlers \ {h} :
                        Suspended(g) \/ pc[g] \in {"idle", "done"}) =>
                outer = Free
    /\ \A i \in Servers :
          slock[i] = RefillTask => (rpc = "write" /\ rk = i)
    /\ rpc = "sleep" => \A i \in Servers : slock[i] \in Handlers \cup {Free}

(* one request waits for its upstream's answer while another is inside a pick
   and the refill task sleeps *)
C21_Witness ==
    \E h, g \in Handlers :
        /\ pc[h] = "send"
        /\ pc[g] = "probe"
        /\ outer = g
        /\ rpc = "sleep"

----------------------------------------------------------------------------
(* Concurrent requests and the refill task on a chain whose first upstream
   fails and whose other upstreams answer 2xx, every upstream with MaxLimit
   tokens, with the scheduling the locks rely on. *)

InitLocks ==
    InitWith(NumUpstreams, [i \in 0..(NumUpstreams - 1) |-> MaxLimit],
             [i \in 0..(NumUpstreams - 1) |-> MaxLimit],
             [i \in 0..(NumUpstreams - 1) |-> i > 0], NumHandlers)

(* a step of request handler h after its arrival *)
HandlerStep(h) ==
    \/ rwb_init(h) \/ gfr_lock(h) \/ gn_lock(h) \/ gn_hit(h) \/ gn_miss(h)
    \/ gn_none(h) \/ retry_connection(h) \/ wake(h)
    \/ \E kind \in {"2xx", "non2xx", "error"} : send(h, kind)

(* a step of the refill task *)
RefillStep == refill_lock \/ refill_write \/ refill_wake

(* A thread in Mutex::lock gets the mutex when it is free again and again: the
   holders run straight-line code (round_robin.rs 31-41, 51-54;
   load_balancer.rs 82-85, 98-101, 121-124) and the refill task leaves every
   mutex free for its one-second sleep.  Every other step of a started request
   and of the refill task is taken once it can be.  A process has one step
   open to it at each position, so fairness is stated per process. *)
FairLocks ==
    /\ SF_vars(RefillStep)
    /\ \A h \in Handlers : SF_vars(HandlerStep(h))

SpecLocks == InitLocks /\ [][Next]_vars /\ FairLocks

(* handler h is in state.lock() (load_balancer.rs 83, 99, 122) *)
WaitsOuter(h) == pc[h] \in {"rwb_init", "gfr_lock", "retry"}

(* handler h is in urls[i].lock() (round_robin.rs 31) *)
WaitsServer(h) == pc[h] = "get_next" /\ loc[h].k < len

(* handler h waits for a mutex that is held *)
Blocked(h) ==
    \/ WaitsOuter(h) /\ outer # Free
    \/ WaitsServer(h) /\ slock[Cursor(index)] # Free

(* the refill task waits for an upstream's mutex that is held *)
RefillBlocked == rpc = "pass" /\ slock[rk] # Free

(* C22: deadlock freedom.  In no reachable state is every process blocked on a
   mutex: a handler waiting for the scheduler's mutex waits for a handler
   inside get_next, a handler waiting for an upstream's mutex waits for the
   refill task in the middle of a write, and the refill task waits for a
   handler that is probing; the process at the end of the chain can step.
   Each acquisition is granted in the end. *)
C22_DeadlockFree ==
    /\ [](~(RefillBlocked /\ \A h \in Handlers : Blocked(h)))
    /\ [](\A h \in Handlers :
            /\ (WaitsOuter(h) /\ outer # Free) =>
                  (outer \in Handlers \ {h} /\ pc[outer] \in {"get_next", "probe"})
            /\ (WaitsServer(h) /\ slock[Cursor(index)] # Free) =>
                  (slock[Cursor(index)] = RefillTask /\ rpc = "write"
                      /\ rk = Cursor(index))
            /\ pc[h] = "probe" => (slock[loc[h].i] = h /\ outer = h))
    /\ [](RefillBlocked =>
            (slock[rk] \in Handlers /\ pc[slock[rk]] = "probe"
                /\ loc[slock[rk]].i = rk))
    /\ \A h \in Handlers :
          /\ (pc[h] = "rwb_init") ~> (pc[h] = "gfr_lock")
          /\ (pc[h] = "gfr_lock") ~> (outer = h)
          /\ (pc[h] = "retry") ~> (outer = h)
          /\ WaitsServer(h) ~> (pc[h] = "probe")
    /\ (rpc = "pass") ~> (rpc = "write")

(* a handler holds the scheduler's mutex and waits for the mutex of an
   upstream the refill task is writing, while the other handler waits for the
   scheduler's mutex *)
C22_Witness ==
    \E h, g \in Handlers :
        /\ outer = h
        /\ WaitsServer(h) /\ Blocked(h)
        /\ WaitsOuter(g) /\ Blocked(g)
        /\ rpc = "write"

=============================================================================
